---- MODULE Spec2Model ----
(***************************************************************************)
(* Model of the color-extractor video processor: FfmpegUtil (single-frame  *)
(* and batch frame extraction, JPEG stream splitting), ColorUtil (dominant *)
(* swatch selection, RGB to HEX) and VideoProcessorRepository              *)
(* .extractColorsFromFrames (batch color extraction).                      *)
(*                                                                         *)
(* Numbers that may carry a fraction (RGB channels as node-vibrant reports *)
(* them) are held as a count of halves: the value 127.5 is the integer     *)
(* 255.  Buffers are sequences of bytes, strings are sequences of          *)
(* one-character strings, JS arrays are sequences, a JS Map is a sequence  *)
(* of <<key, value>> entries in insertion order.                           *)
(***************************************************************************)
EXTENDS Integers, Sequences, FiniteSets, TLC

VARIABLES
    fn,            \* pure-function harness: the function applied, or "none"
    arg,           \* pure-function harness: its argument
    ret,           \* pure-function harness: its return value or thrown error
    pc,            \* position of the batch call (extractColorsFromFrames)
    videoUrlValid, \* outcome of isValidVideoUrl(videoUrl) for the request
    video,         \* presentation times (ms) of the frames of the source video
    timestampsMs,  \* the request's timestamp list
    ffmpegRuns,    \* decoder processes started by the call, in order
    decoder,       \* state of the running decoder process and its events
    chunks,        \* extractMultipleFrames: chunks collected from the stream
    parseCalls,    \* number of parseJpegFrames invocations of the call
    parsed,        \* frames parseJpegFrames returned to the 'end' handler
    tempFiles,     \* temp-frames directory: output path -> file content
    framesPromise, \* promise returned by extractMultipleFrames
    tasks,         \* extractColorsFromFrames: the colorPromises, entry order
    callPromise,   \* promise returned by extractColorsFromFrames
    svcPc,         \* position of VideoProcessorService.extractColors
    dto,           \* the request: outcome of isValidVideoUrl, and timestamps
    durationPromise,   \* promise returned by getVideoDuration
    colorTasks,    \* the processTimestamp calls (colorPromises), list order
    allColors,     \* Promise.all(colorPromises)
    extractFrameCalls, \* timestamps FfmpegUtil.extractFrame was called with
    colorCalls,    \* timestamps whose frame went to extractDominantColor
    processingHistory, \* the repository's saved processing records
    servicePromise, \* promise returned by extractColors
    clock,         \* performance.now(), in ms since the model's start
    startedAt,     \* extractMultipleFrames: const start
    ffmpegMs,      \* ffmpegMs of the value the frames promise resolved with
    jobs           \* concurrent FfmpegUtil.extractFrame calls of one request

harnessVars == <<fn, arg, ret>>
callVars == <<pc, videoUrlValid, video, timestampsMs, ffmpegRuns, decoder,
              chunks, parseCalls, parsed, tempFiles, framesPromise, tasks,
              callPromise>>
serviceVars == <<svcPc, dto, durationPromise, colorTasks, allColors,
                 extractFrameCalls, colorCalls, processingHistory,
                 servicePromise>>
vars == <<fn, arg, ret, pc, videoUrlValid, video, timestampsMs, ffmpegRuns,
          decoder, chunks, parseCalls, parsed, tempFiles, framesPromise,
          tasks, callPromise, svcPc, dto, durationPromise, colorTasks,
          allColors, extractFrameCalls, colorCalls, processingHistory,
          servicePromise, clock, startedAt, ffmpegMs, jobs>>
timingVars == <<clock, startedAt, ffmpegMs>>

----------------------------------------------------------------------------
(* Bounds *)

MaxTimestamps == 3      \* longest timestamp list of a request
MaxLowChannel == 16     \* channel samples 0..MaxLowChannel are all drawn
ChannelStride == 17     \* ... and every ChannelStride-th value above
MaxJpegs == 3           \* most buffers concatenated for the round trip
MaxJpegBody == 2        \* most bytes after the SOI marker in such a buffer
MaxBufferLen == 4       \* longest buffer handed to parseJpegFrames on its own
MaxServiceTimestamps == 2   \* longest timestamp list of a service request
MaxSelectTime == 55     \* latest frame time the select expression is tried on
MaxJobs == 2            \* most concurrent extractFrame calls of a request
MaxClock == 3           \* latest reading of the clock

----------------------------------------------------------------------------
(* Generic helpers *)

Range(s) == {s[i] : i \in 1..Len(s)}

SeqsUpTo(S, n) == UNION {[1..k -> S] : k \in 0..n}

RECURSIVE Flatten(_)
Flatten(ss) == IF ss = <<>> THEN <<>> ELSE Head(ss) \o Flatten(Tail(ss))

Min(S) == CHOOSE x \in S : \A y \in S : x <= y

RECURSIVE SortedSeq(_)
SortedSeq(S) == IF S = {} THEN <<>> ELSE <<Min(S)>> \o SortedSeq(S \ {Min(S)})

----------------------------------------------------------------------------
(* ColorUtil.rgbToHex *)

HexDigits == <<"0", "1", "2", "3", "4", "5", "6", "7",
               "8", "9", "a", "b", "c", "d", "e", "f">>

UpperHexDigits == <<"0", "1", "2", "3", "4", "5", "6", "7",
                    "8", "9", "A", "B", "C", "D", "E", "F">>

\* Math.round on a non-negative number held in halves: floor(x + 0.5)
MathRound(x2) == (x2 + 1) \div 2

\* Number.prototype.toString(16) on a non-negative integer
RECURSIVE toString16(_)
toString16(n) ==
    IF n < 16 THEN <<HexDigits[n + 1]>>
    ELSE toString16(n \div 16) \o <<HexDigits[(n % 16) + 1]>>

\* String.prototype.toUpperCase, one character
UpperChar(c) ==
    IF \E i \in 11..16 : HexDigits[i] = c
    THEN UpperHexDigits[CHOOSE i \in 11..16 : HexDigits[i] = c]
    ELSE c

toUpperCase(s) == [i \in 1..Len(s) |-> UpperChar(s[i])]

toHex_NoPad(value) == toString16(MathRound(value))

toHex(value) ==
    LET hex == toString16(MathRound(value))
    IN  IF Len(hex) = 1 THEN <<"0">> \o hex ELSE hex

rgbToHex(r, g, b) == toUpperCase(<<"#">> \o toHex(r) \o toHex(g) \o toHex(b))

----------------------------------------------------------------------------
(* ColorUtil.extractDominantColor *)

Categories == <<"Vibrant", "Muted", "DarkVibrant", "DarkMuted",
                "LightVibrant", "LightMuted">>

\* an optional palette entry that is missing (undefined)
Absent == [undefined |-> TRUE]

\* a settled value: what a call returned, or the Error it threw (by the
\* parts of its message)
Ok(v) == [value |-> v]

Err(msg) == [error |-> msg]

IsErr(v) == DOMAIN v = {"error"}

\* palette.Vibrant || palette.Muted || ... : the first truthy operand
FirstSwatch_MutedLate(palette) ==
    IF palette.Vibrant # Absent THEN palette.Vibrant
    ELSE IF palette.DarkVibrant # Absent THEN palette.DarkVibrant
    ELSE IF palette.Muted # Absent THEN palette.Muted
    ELSE IF palette.DarkMuted # Absent THEN palette.DarkMuted
    ELSE IF palette.LightVibrant # Absent THEN palette.LightVibrant
    ELSE palette.LightMuted

FirstSwatch(palette) ==
    IF palette.Vibrant # Absent THEN palette.Vibrant
    ELSE IF palette.Muted # Absent THEN palette.Muted
    ELSE IF palette.DarkVibrant # Absent THEN palette.DarkVibrant
    ELSE IF palette.DarkMuted # Absent THEN palette.DarkMuted
    ELSE IF palette.LightVibrant # Absent THEN palette.LightVibrant
    ELSE palette.LightMuted

\* The body of extractDominantColor after getPalette() has settled with
\* `got`: a palette, or the error getPalette() rejected with.  Every throw
\* inside the try block is caught and rethrown with the prefix.
DominantColorOf_Default(got) ==
    LET vibrantSwatch == FirstSwatch(got.value)
    IN  IF IsErr(got) THEN Err(<<"Failed to extract color: ">> \o got.error)
        ELSE IF vibrantSwatch = Absent THEN Ok(rgbToHex(0, 0, 0))
        ELSE Ok(rgbToHex(vibrantSwatch.rgb[1], vibrantSwatch.rgb[2],
                         vibrantSwatch.rgb[3]))

DominantColorOf(got) ==
    LET vibrantSwatch == FirstSwatch(got.value)
        thrown == IF IsErr(got) THEN got.error
                  ELSE <<"No color swatch found in palette">>
    IN  IF IsErr(got) \/ vibrantSwatch = Absent
        THEN Err(<<"Failed to extract color: ">> \o thrown)
        ELSE Ok(rgbToHex(vibrantSwatch.rgb[1], vibrantSwatch.rgb[2],
                         vibrantSwatch.rgb[3]))

----------------------------------------------------------------------------
(* FfmpegUtil.parseJpegFrames *)

SOI == <<255, 216>>

\* Buffer.subarray(start, end) with 0-based offsets, end exclusive
subarray(buffer, start, end) == SubSeq(buffer, start + 1, end)

\* the for loop, from index i with the loop's locals
RECURSIVE ParseLoop(_, _, _, _)
ParseLoop(buffer, i, currentFrameStart, frames) ==
    IF ~(i < Len(buffer) - 1) THEN [start |-> currentFrameStart, frames |-> frames]
    ELSE IF buffer[i + 1] = 255 /\ buffer[i + 2] = 216
         THEN ParseLoop(buffer, i + 1, i,
                        IF i > currentFrameStart /\ currentFrameStart > 0
                        THEN Append(frames, subarray(buffer, currentFrameStart, i))
                        ELSE frames)
         ELSE ParseLoop(buffer, i + 1, currentFrameStart, frames)

parseJpegFrames_KeepEmpty(buffer) ==
    LET loop == ParseLoop(buffer, 0, 0, <<>>)
    IN  Append(loop.frames, subarray(buffer, loop.start, Len(buffer)))

parseJpegFrames(buffer) ==
    LET loop == ParseLoop(buffer, 0, 0, <<>>)
        frames == IF loop.start < Len(buffer)
                  THEN Append(loop.frames, subarray(buffer, loop.start, Len(buffer)))
                  ELSE loop.frames
    IN  SelectSeq(frames, LAMBDA f : Len(f) > 0)

----------------------------------------------------------------------------
(* The source video, the decoder (FFmpeg) and the palette library          *)
(* (node-vibrant), by the contracts the code relies on                     *)

\* presentation times (ms) a frame of the source may have; the byte that
\* tells the frames apart is the position in this list
FrameTimes == <<995, 1005, 3000, 3005, 5000>>

\* timestamps (ms) a request may ask for
TimestampValues == {1000, 3000, 5000}

FrameByte(t) == CHOOSE k \in 1..Len(FrameTimes) : FrameTimes[k] = t

\* the JPEG the decoder encodes for the frame shown at time t
Frame(t) == SOI \o <<FrameByte(t)>>

Swatch(r, g, b) == [rgb |-> <<2 * r, 2 * g, 2 * b>>]

NoPalette == [c \in Range(Categories) |-> Absent]

\* what getPalette() yields for each frame of the source
FramePalettes == <<
    [NoPalette EXCEPT !.Vibrant = Swatch(255, 0, 128)],
    [NoPalette EXCEPT !.Muted = Swatch(18, 52, 86),
                      !.LightVibrant = Swatch(200, 200, 10)],
    [NoPalette EXCEPT !.DarkVibrant = Swatch(10, 11, 12),
                      !.DarkMuted = Swatch(1, 2, 3)],
    NoPalette,
    [NoPalette EXCEPT !.LightMuted = Swatch(250, 240, 230)] >>

\* Vibrant.from(imageBuffer).getPalette(): rejects when the buffer is not an
\* image it can decode
VibrantGetPalette(imageBuffer) ==
    IF Len(imageBuffer) = 3 /\ SubSeq(imageBuffer, 1, 2) = SOI
       /\ imageBuffer[3] \in 1..Len(FramePalettes)
    THEN Ok(FramePalettes[imageBuffer[3]])
    ELSE Err(<<"vibrant: cannot decode image">>)

\* ColorUtil.extractDominantColor, start to finish
extractDominantColor(imageBuffer) == DominantColorOf(VibrantGetPalette(imageBuffer))

\* ColorUtil.extractDominantColor as extractColorsFromFrames uses it: the
\* color together with the time the extraction took, from the call at
\* calledAt to its settling at settledAt
extractDominantColorTimed(imageBuffer, calledAt, settledAt) ==
    LET out == extractDominantColor(imageBuffer)
    IN  IF IsErr(out) THEN out
        ELSE Ok([color |-> out.value, vibrantMs |-> settledAt - calledAt])

\* the tolerance of the select windows: 0.01 s
ToleranceMs == 10

\* selectExpression: one (gte(t,lo)*lte(t,hi)) term per list element
selectExpression_Strict(timestamps) ==
    [i \in 1..Len(timestamps) |->
        [gte |-> timestamps[i] - ToleranceMs, lte |-> timestamps[i] + ToleranceMs - 1]]

selectExpression(timestamps) ==
    [i \in 1..Len(timestamps) |->
        [gte |-> timestamps[i] - ToleranceMs, lte |-> timestamps[i] + ToleranceMs]]

RECURSIVE EvalSelect(_, _)
\* FFmpeg's value of the select expression for a frame at time t: the sum
\* of the products; the frame is selected when it is not zero
EvalSelect(expr, t) ==
    IF expr = <<>> THEN 0
    ELSE (IF t >= Head(expr).gte THEN 1 ELSE 0) * (IF t <= Head(expr).lte THEN 1 ELSE 0)
         + EvalSelect(Tail(expr), t)

\* the frames the batch decoder emits, in presentation order, one chunk each
BatchOutput(frameTimes, timestamps) ==
    LET sel == {t \in frameTimes : EvalSelect(selectExpression(timestamps), t) # 0}
        order == SortedSeq(sel)
    IN  [i \in 1..Len(order) |-> Frame(order[i])]

\* seekInput(ts).frames(1): the first frame at or after ts, if there is one
SingleOutput(frameTimes, ts) ==
    LET after == {t \in frameTimes : t >= ts}
    IN  IF after = {} THEN <<>> ELSE <<Frame(Min(after))>>

\* VideoProcessorRepository.extractColorFromFrame on a source with frames at
\* frameTimes: extractFrame, then extractDominantColor of that frame
extractColorFromFrame(frameTimes, timestampMs) ==
    LET output == SingleOutput(frameTimes, timestampMs)
    IN  IF output = <<>>
        THEN Err(<<"Failed to read extracted frame: ", "ENOENT">>)
        ELSE extractDominantColor(output[1])

\* names path.join(TEMP_DIR, `frame_${Date.now()}_${random}.jpg`) can take
OutputPaths == {"frame_1.jpg", "frame_2.jpg"}

----------------------------------------------------------------------------
(* Promises and the JS Map *)

Pending == [state |-> "pending"]

Resolved(v) == [state |-> "resolved", value |-> v]

Rejected(e) == [state |-> "rejected", error |-> e]

\* resolve()/reject() on a promise: no effect once it is settled
Settle(promise, outcome) == IF promise.state = "pending" THEN outcome ELSE promise

\* Map.prototype.set: a new key is appended, an existing key keeps its place
MapSet(map, key, value) ==
    IF \E i \in 1..Len(map) : map[i][1] = key
    THEN [i \in 1..Len(map) |-> IF map[i][1] = key THEN <<key, value>> ELSE map[i]]
    ELSE Append(map, <<key, value>>)

\* the loop that maps frames to timestamps, from index i
RECURSIVE FrameMapLoop(_, _, _, _)
FrameMapLoop(timestamps, frames, i, frameMap) ==
    IF ~(i < Len(timestamps)) THEN frameMap
    ELSE FrameMapLoop(timestamps, frames, i + 1,
                      IF i < Len(frames)
                      THEN MapSet(frameMap, timestamps[i + 1], frames[i + 1])
                      ELSE frameMap)

\* Array.prototype.sort((a, b) => a.timestamp - b.timestamp), stable
RECURSIVE InsertByTimestamp(_, _)
InsertByTimestamp(sorted, r) ==
    IF sorted = <<>> THEN <<r>>
    ELSE IF Head(sorted).timestamp <= r.timestamp
         THEN <<Head(sorted)>> \o InsertByTimestamp(Tail(sorted), r)
         ELSE <<r>> \o sorted

RECURSIVE SortByTimestamp(_)
SortByTimestamp(results) ==
    IF results = <<>> THEN <<>>
    ELSE InsertByTimestamp(SortByTimestamp(SubSeq(results, 1, Len(results) - 1)),
                           results[Len(results)])

----------------------------------------------------------------------------
(* FfmpegUtil.extractMultipleFrames and FfmpegUtil.extractFrame            *)

\* the clock and the measurements before any call
NoTiming ==
    /\ clock = 0
    /\ startedAt = 0
    /\ ffmpegMs = 0

\* the service before any request
NoService ==
    /\ svcPc = "idle"
    /\ dto = [videoUrlValid |-> TRUE, timestamps |-> <<>>]
    /\ durationPromise = Pending
    /\ colorTasks = <<>>
    /\ allColors = Pending
    /\ extractFrameCalls = <<>>
    /\ colorCalls = <<>>
    /\ processingHistory = <<>>
    /\ servicePromise = Pending

NoDecoder ==
    [kind |-> "none", fails |-> FALSE, toEmit |-> <<>>, outputPath |-> "",
     written |-> FALSE, endFired |-> FALSE, errorFired |-> FALSE]

NoFiles == [p \in {} |-> <<>>]

WriteFile(files, path, content) ==
    [p \in DOMAIN files \cup {path} |-> IF p = path THEN content ELSE files[p]]

RemoveFile(files, path) == [p \in DOMAIN files \ {path} |-> files[p]]

\* timestampsMs.length === 1: the single-timestamp delegation
IsSingleTimestamp_Never(timestamps) == FALSE

IsSingleTimestamp(timestamps) == Len(timestamps) = 1

\* the decoder processes running after the batch command was started
SpawnBatch_PerTimestamp(runs, timestamps) ==
    runs \o [i \in 1..Len(timestamps) |-> "batch"]

SpawnBatch(runs, timestamps) == Append(runs, "batch")

InvalidUrlError ==
    Err(<<"Invalid video URL. Please provide a direct link to a video file">>)

\* extractColorsFromFrames -> extractMultipleFrames with a URL that
\* isValidVideoUrl refuses: throws before anything else
CallInvalidUrl ==
    /\ pc = "idle"
    /\ \E timestamps \in SeqsUpTo(TimestampValues, MaxTimestamps) :
          timestampsMs' = timestamps
    /\ videoUrlValid' = FALSE
    /\ framesPromise' = [state |-> "rejected", error |-> InvalidUrlError.error]
    /\ pc' = "awaitFrames"
    /\ UNCHANGED <<serviceVars, timingVars, jobs, fn, arg, ret, video, ffmpegRuns, decoder, chunks,
                   parseCalls, parsed, tempFiles, tasks, callPromise>>

CallNoTimestamps_Spawn ==
    /\ pc = "idle"
    /\ timestampsMs' = <<>>
    /\ videoUrlValid' = TRUE
    /\ ffmpegRuns' = Append(ffmpegRuns, "batch")
    /\ decoder' = [NoDecoder EXCEPT !.kind = "batch"]
    /\ pc' = "awaitFrames"
    /\ UNCHANGED <<serviceVars, timingVars, jobs, fn, arg, ret, video, chunks, parseCalls, parsed, tempFiles,
                   framesPromise, tasks, callPromise>>

\* ... with no timestamps: throws 'No timestamps provided'
CallNoTimestamps ==
    /\ pc = "idle"
    /\ timestampsMs' = <<>>
    /\ videoUrlValid' = TRUE
    /\ framesPromise' = [state |-> "rejected", error |-> <<"No timestamps provided">>]
    /\ pc' = "awaitFrames"
    /\ UNCHANGED <<serviceVars, timingVars, jobs, fn, arg, ret, video, ffmpegRuns, decoder, chunks,
                   parseCalls, parsed, tempFiles, tasks, callPromise>>

\* ... with one timestamp: delegates to extractFrame, which starts one
\* decoder process writing to a fresh output path
CallSingle ==
    /\ pc = "idle"
    /\ \E timestamps \in SeqsUpTo(TimestampValues, MaxTimestamps) \ {<<>>},
          path \in OutputPaths, fails \in BOOLEAN :
          /\ IsSingleTimestamp(timestamps)
          /\ timestampsMs' = timestamps
          /\ decoder' = [NoDecoder EXCEPT !.kind = "single", !.fails = fails,
                            !.toEmit = SingleOutput(video, timestamps[1]),
                            !.outputPath = path]
    /\ videoUrlValid' = TRUE
    /\ ffmpegRuns' = Append(ffmpegRuns, "single")
    /\ pc' = "awaitFrames"
    /\ startedAt' = clock
    /\ UNCHANGED <<serviceVars, clock, ffmpegMs, jobs, fn, arg, ret, video,
                   chunks, parseCalls, parsed, tempFiles, framesPromise,
                   tasks, callPromise>>

\* ... with several timestamps: builds the select expression and starts the
\* one batch command, piping its output.  A failing decoder gets no further
\* than `cut` frames.
CallBatch ==
    /\ pc = "idle"
    /\ \E timestamps \in SeqsUpTo(TimestampValues, MaxTimestamps) \ {<<>>},
          fails \in BOOLEAN :
          LET output == BatchOutput(video, timestamps)
          IN  /\ ~IsSingleTimestamp(timestamps)
              /\ timestampsMs' = timestamps
              /\ ffmpegRuns' = SpawnBatch(ffmpegRuns, timestamps)
              /\ \E cut \in 0..Len(output) :
                    /\ fails \/ cut = Len(output)
                    /\ decoder' = [NoDecoder EXCEPT !.kind = "batch",
                                      !.fails = fails,
                                      !.toEmit = SubSeq(output, 1, cut)]
    /\ videoUrlValid' = TRUE
    /\ pc' = "awaitFrames"
    /\ startedAt' = clock
    /\ UNCHANGED <<serviceVars, clock, ffmpegMs, jobs, fn, arg, ret, video,
                   chunks, parseCalls, parsed, tempFiles, framesPromise,
                   tasks, callPromise>>

\* stream.on('data'): chunks.push(chunk)
StreamData ==
    /\ decoder.kind = "batch"
    /\ ~decoder.endFired
    /\ decoder.toEmit # <<>>
    /\ chunks' = Append(chunks, Head(decoder.toEmit))
    /\ decoder' = [decoder EXCEPT !.toEmit = Tail(@)]
    /\ UNCHANGED <<serviceVars, timingVars, jobs, fn, arg, ret, pc, videoUrlValid, video, timestampsMs,
                   ffmpegRuns, parseCalls, parsed, tempFiles, framesPromise,
                   tasks, callPromise>>

StreamEnd_SilentOnEmpty ==
    /\ decoder.kind = "batch"
    /\ ~decoder.endFired
    /\ decoder.toEmit = <<>>
    /\ LET frames == parseJpegFrames(Flatten(chunks))
       IN  /\ parsed' = frames
           /\ framesPromise' =
                 Settle(framesPromise,
                        IF Len(frames) = 0
                        THEN framesPromise
                        ELSE Resolved(FrameMapLoop(timestampsMs, frames, 0, <<>>)))
           /\ ffmpegMs' = IF Len(frames) = 0 THEN ffmpegMs ELSE clock - startedAt
    /\ parseCalls' = parseCalls + 1
    /\ decoder' = [decoder EXCEPT !.endFired = TRUE]
    /\ UNCHANGED <<serviceVars, clock, startedAt, jobs, fn, arg, ret, pc,
                   videoUrlValid, video, timestampsMs, ffmpegRuns, chunks,
                   tempFiles, tasks, callPromise>>

\* stream.on('end'): parse, reject on no frames, else map frames to
\* timestamps by position and resolve
StreamEnd ==
    /\ decoder.kind = "batch"
    /\ ~decoder.endFired
    /\ decoder.toEmit = <<>>
    /\ LET frames == parseJpegFrames(Flatten(chunks))
       IN  /\ parsed' = frames
           /\ framesPromise' =
                 Settle(framesPromise,
                        IF Len(frames) = 0
                        THEN Rejected(<<"FFmpeg returned no frames">>)
                        ELSE Resolved(FrameMapLoop(timestampsMs, frames, 0, <<>>)))
           /\ ffmpegMs' = IF Len(frames) = 0 THEN ffmpegMs ELSE clock - startedAt
    /\ parseCalls' = parseCalls + 1
    /\ decoder' = [decoder EXCEPT !.endFired = TRUE]
    /\ UNCHANGED <<serviceVars, clock, startedAt, jobs, fn, arg, ret, pc,
                   videoUrlValid, video, timestampsMs, ffmpegRuns, chunks,
                   tempFiles, tasks, callPromise>>

\* command.on('error') of the batch command
CommandError ==
    /\ decoder.kind = "batch"
    /\ decoder.fails
    /\ ~decoder.errorFired
    /\ framesPromise' =
          Settle(framesPromise,
                 Rejected(<<"FFmpeg batch extraction failed: ", "diagnostic",
                            ". Make sure FFmpeg is installed and the video URL is accessible.">>))
    /\ decoder' = [decoder EXCEPT !.errorFired = TRUE]
    /\ UNCHANGED <<serviceVars, timingVars, jobs, fn, arg, ret, pc, videoUrlValid, video, timestampsMs,
                   ffmpegRuns, chunks, parseCalls, parsed, tempFiles, tasks,
                   callPromise>>

\* the single-frame decoder writes its one frame to the output path
DecoderWriteFile ==
    /\ decoder.kind = "single"
    /\ ~decoder.written /\ ~decoder.endFired /\ ~decoder.errorFired
    /\ decoder.toEmit # <<>>
    /\ tempFiles' = WriteFile(tempFiles, decoder.outputPath, Head(decoder.toEmit))
    /\ decoder' = [decoder EXCEPT !.written = TRUE]
    /\ UNCHANGED <<serviceVars, timingVars, jobs, fn, arg, ret, pc, videoUrlValid, video, timestampsMs,
                   ffmpegRuns, chunks, parseCalls, parsed, framesPromise,
                   tasks, callPromise>>

\* extractFrame .on('end'): read the file, unlink it, resolve; any throw
\* rejects.  extractMultipleFrames, awaiting it, then returns the one-entry
\* map of the timestamp to that frame buffer (or throws the same error).
SingleEnd ==
    /\ decoder.kind = "single"
    /\ ~decoder.fails
    /\ ~decoder.endFired
    /\ decoder.written \/ decoder.toEmit = <<>>
    /\ \E fault \in {"none", "readFileSync", "unlink"} :
          IF decoder.outputPath \notin DOMAIN tempFiles
          THEN /\ fault = "none"
               /\ framesPromise' =
                     Rejected(<<"Failed to read extracted frame: ", "ENOENT">>)
               /\ UNCHANGED <<tempFiles, ffmpegMs>>
          ELSE IF fault # "none"
          THEN /\ framesPromise' =
                     Rejected(<<"Failed to read extracted frame: ", fault>>)
               /\ UNCHANGED <<tempFiles, ffmpegMs>>
          ELSE /\ framesPromise' =
                     Resolved(<< <<timestampsMs[1], tempFiles[decoder.outputPath]>> >>)
               /\ tempFiles' = RemoveFile(tempFiles, decoder.outputPath)
               /\ ffmpegMs' = clock - startedAt
    /\ decoder' = [decoder EXCEPT !.endFired = TRUE]
    /\ UNCHANGED <<serviceVars, clock, startedAt, jobs, fn, arg, ret, pc,
                   videoUrlValid, video, timestampsMs, ffmpegRuns, chunks,
                   parseCalls, parsed, tasks, callPromise>>

\* extractFrame .on('error'): remove the output file if it exists, reject
SingleError ==
    /\ decoder.kind = "single"
    /\ decoder.fails
    /\ ~decoder.errorFired
    /\ tempFiles' = RemoveFile(tempFiles, decoder.outputPath)
    /\ framesPromise' =
          Rejected(<<"FFmpeg extraction failed: ", "diagnostic",
                     ". Make sure FFmpeg is installed and the video URL is accessible.">>)
    /\ decoder' = [decoder EXCEPT !.errorFired = TRUE]
    /\ UNCHANGED <<serviceVars, timingVars, jobs, fn, arg, ret, pc, videoUrlValid, video, timestampsMs,
                   ffmpegRuns, chunks, parseCalls, parsed, tasks, callPromise>>

----------------------------------------------------------------------------
(* VideoProcessorRepository.extractColorsFromFrames                        *)

\* the await on extractMultipleFrames throws: the call rejects with it
FramesRejected ==
    /\ pc = "awaitFrames"
    /\ framesPromise.state = "rejected"
    /\ callPromise' = Rejected(framesPromise.error)
    /\ pc' = "done"
    /\ UNCHANGED <<serviceVars, timingVars, jobs, fn, arg, ret, videoUrlValid, video, timestampsMs,
                   ffmpegRuns, decoder, chunks, parseCalls, parsed, tempFiles,
                   framesPromise, tasks>>

\* the await returns the map: one color task per entry, in entry order
FramesResolved ==
    /\ pc = "awaitFrames"
    /\ framesPromise.state = "resolved"
    /\ LET frames == framesPromise.value
       IN  tasks' = [i \in 1..Len(frames) |->
                        [timestamp |-> frames[i][1], frameBuffer |-> frames[i][2],
                         calledAt |-> clock, promise |-> Pending]]
    /\ pc' = "awaitColors"
    /\ UNCHANGED <<serviceVars, timingVars, jobs, fn, arg, ret, videoUrlValid, video, timestampsMs,
                   ffmpegRuns, decoder, chunks, parseCalls, parsed, tempFiles,
                   framesPromise, callPromise>>

\* one color task finishes.  Promise.all rejects with the first task that
\* throws and resolves when all have returned; the results are then sorted
\* by timestamp and returned.
TaskSettle_Partial(i) ==
    /\ pc = "awaitColors"
    /\ tasks[i].promise.state = "pending"
    /\ LET out == extractDominantColor(tasks[i].frameBuffer)
           settled ==
               IF IsErr(out) THEN Rejected(out.error)
               ELSE Resolved([timestamp |-> tasks[i].timestamp, color |-> out.value,
                              ffmpegMs |-> ffmpegMs,
                              vibrantMs |-> clock - tasks[i].calledAt])
           after == [tasks EXCEPT ![i].promise = settled]
           allSettled == \A j \in 1..Len(after) : after[j].promise.state # "pending"
           fulfilled == SelectSeq(after, LAMBDA t : t.promise.state = "resolved")
       IN  /\ tasks' = after
           /\ callPromise' =
                 IF allSettled
                 THEN Settle(callPromise,
                             Resolved(SortByTimestamp(
                                 [j \in 1..Len(fulfilled) |-> fulfilled[j].promise.value])))
                 ELSE callPromise
           /\ pc' = IF allSettled THEN "done" ELSE pc
    /\ UNCHANGED <<serviceVars, timingVars, jobs, fn, arg, ret, videoUrlValid, video, timestampsMs,
                   ffmpegRuns, decoder, chunks, parseCalls, parsed, tempFiles,
                   framesPromise>>

TaskSettle_CompletionOrder(i) ==
    /\ pc = "awaitColors"
    /\ tasks[i].promise.state = "pending"
    /\ LET out == extractDominantColor(tasks[i].frameBuffer)
           settled ==
               IF IsErr(out) THEN Rejected(out.error)
               ELSE Resolved([timestamp |-> tasks[i].timestamp, color |-> out.value,
                              ffmpegMs |-> ffmpegMs,
                              vibrantMs |-> clock - tasks[i].calledAt])
           after == [tasks EXCEPT ![i].promise = settled]
           allResolved == \A j \in 1..Len(after) : after[j].promise.state = "resolved"
           allSettled == \A j \in 1..Len(after) : after[j].promise.state # "pending"
           earlier == SelectSeq(tasks, LAMBDA t : t.promise.state = "resolved")
       IN  /\ tasks' = after
           /\ callPromise' =
                 IF IsErr(out) THEN Settle(callPromise, Rejected(out.error))
                 ELSE IF allResolved
                 THEN Settle(callPromise,
                             Resolved(Append([j \in 1..Len(earlier) |->
                                                 earlier[j].promise.value],
                                             settled.value)))
                 ELSE callPromise
           /\ pc' = IF allSettled THEN "done" ELSE pc
    /\ UNCHANGED <<serviceVars, timingVars, jobs, fn, arg, ret, videoUrlValid, video, timestampsMs,
                   ffmpegRuns, decoder, chunks, parseCalls, parsed, tempFiles,
                   framesPromise>>

TaskSettle_OwnDecodeTime(i) ==
    /\ pc = "awaitColors"
    /\ tasks[i].promise.state = "pending"
    /\ \E out \in {extractDominantColor(tasks[i].frameBuffer)} :
       LET settled ==
               IF IsErr(out) THEN Rejected(out.error)
               ELSE Resolved([timestamp |-> tasks[i].timestamp, color |-> out.value,
                              ffmpegMs |-> clock - startedAt,
                              vibrantMs |-> clock - tasks[i].calledAt])
           after == [tasks EXCEPT ![i].promise = settled]
           allResolved == \A j \in 1..Len(after) : after[j].promise.state = "resolved"
           allSettled == \A j \in 1..Len(after) : after[j].promise.state # "pending"
       IN  /\ tasks' = after
           /\ callPromise' =
                 IF IsErr(out) THEN Settle(callPromise, Rejected(out.error))
                 ELSE IF allResolved
                 THEN Settle(callPromise,
                             Resolved(SortByTimestamp(
                                 [j \in 1..Len(after) |-> after[j].promise.value])))
                 ELSE callPromise
           /\ pc' = IF allSettled THEN "done" ELSE pc
    /\ UNCHANGED <<serviceVars, timingVars, jobs, fn, arg, ret, videoUrlValid,
                   video, timestampsMs, ffmpegRuns, decoder, chunks,
                   parseCalls, parsed, tempFiles, framesPromise>>

\* (`out` is what the awaited extractDominantColor settled with)
TaskSettle(i) ==
    /\ pc = "awaitColors"
    /\ tasks[i].promise.state = "pending"
    /\ \E out \in {extractDominantColorTimed(tasks[i].frameBuffer,
                                             tasks[i].calledAt, clock)} :
       LET settled ==
               IF IsErr(out) THEN Rejected(out.error)
               ELSE Resolved([timestamp |-> tasks[i].timestamp,
                              color |-> out.value.color,
                              ffmpegMs |-> ffmpegMs,
                              vibrantMs |-> out.value.vibrantMs])
           after == [tasks EXCEPT ![i].promise = settled]
           allResolved == \A j \in 1..Len(after) : after[j].promise.state = "resolved"
           allSettled == \A j \in 1..Len(after) : after[j].promise.state # "pending"
       IN  /\ tasks' = after
           /\ callPromise' =
                 IF IsErr(out) THEN Settle(callPromise, Rejected(out.error))
                 ELSE IF allResolved
                 THEN Settle(callPromise,
                             Resolved(SortByTimestamp(
                                 [j \in 1..Len(after) |-> after[j].promise.value])))
                 ELSE callPromise
           /\ pc' = IF allSettled THEN "done" ELSE pc
    /\ UNCHANGED <<serviceVars, timingVars, jobs, fn, arg, ret, videoUrlValid,
                   video, timestampsMs, ffmpegRuns, decoder, chunks,
                   parseCalls, parsed, tempFiles, framesPromise>>

----------------------------------------------------------------------------
(* The batch call *)

Init ==
    /\ fn = "none" /\ arg = <<>> /\ ret = <<>>
    /\ pc = "idle"
    /\ videoUrlValid = TRUE
    /\ video \in SUBSET Range(FrameTimes)
    /\ timestampsMs = <<>>
    /\ ffmpegRuns = <<>>
    /\ decoder = NoDecoder
    /\ chunks = <<>>
    /\ parseCalls = 0
    /\ parsed = <<>>
    /\ tempFiles = NoFiles
    /\ framesPromise = Pending
    /\ tasks = <<>>
    /\ callPromise = Pending
    /\ NoService
    /\ NoTiming
    /\ jobs = <<>>

Next ==
    \/ CallInvalidUrl
    \/ CallNoTimestamps
    \/ CallSingle
    \/ CallBatch
    \/ StreamData
    \/ StreamEnd
    \/ CommandError
    \/ DecoderWriteFile
    \/ SingleEnd
    \/ SingleError
    \/ FramesRejected
    \/ FramesResolved
    \/ \E i \in 1..Len(tasks) : TaskSettle(i)

Spec == Init /\ [][Next]_vars

\* what the decoder process and its streams do on their own
DecoderEvents ==
    \/ StreamData
    \/ StreamEnd
    \/ CommandError
    \/ DecoderWriteFile
    \/ SingleEnd
    \/ SingleError

\* sources for the fair runs: no frame, two frames (one of them without a
\* swatch), and all frames
FairVideos == {{}, {1005, 3005}, Range(FrameTimes)}

InitFair ==
    /\ fn = "none" /\ arg = <<>> /\ ret = <<>>
    /\ video \in FairVideos
    /\ pc = "idle"
    /\ videoUrlValid = TRUE
    /\ timestampsMs = <<>>
    /\ ffmpegRuns = <<>>
    /\ decoder = NoDecoder
    /\ chunks = <<>>
    /\ parseCalls = 0
    /\ parsed = <<>>
    /\ tempFiles = NoFiles
    /\ framesPromise = Pending
    /\ tasks = <<>>
    /\ callPromise = Pending
    /\ NoService
    /\ NoTiming
    /\ jobs = <<>>

\* what happens to a call once it was made
Progress ==
    \/ DecoderEvents
    \/ FramesRejected
    \/ FramesResolved
    \/ \E i \in 1..Len(tasks) : TaskSettle(i)

\* the decoder emits its events, every palette extraction settles and the
\* continuations of settled promises are run: a call that can make a step
\* eventually makes one
SpecFair == InitFair /\ [][Next]_vars /\ WF_vars(Progress)

\* time passes: performance.now() grows
Tick ==
    /\ clock < MaxClock
    /\ clock' = clock + 1
    /\ UNCHANGED <<harnessVars, callVars, serviceVars, startedAt, ffmpegMs, jobs>>

NextTiming ==
    \/ Next
    \/ Tick

\* a batch call with time passing between its steps
SpecTiming == InitFair /\ [][NextTiming]_vars

----------------------------------------------------------------------------
(* VideoProcessorService.extractColors                                     *)

\* an Error that is an instance of BadRequestException
BadRequestException(message) ==
    [name |-> "BadRequestException", message |-> message]

\* metadata.format.duration values ffprobe can report, in half milliseconds
ProbedDurations == {0, 1999, 6000, 10001}

\* Math.floor of a number given in halves
MathFloor(x2) == x2 \div 2

invalidTimestamps_First(timestamps, videoDuration) ==
    LET invalid == SelectSeq(timestamps, LAMBDA ts : ts > videoDuration)
    IN  IF invalid = <<>> THEN <<>> ELSE <<Head(invalid)>>

\* dto.timestamps.filter((ts) => ts > videoDuration)
invalidTimestamps(timestamps, videoDuration) ==
    SelectSeq(timestamps, LAMBDA ts : ts > videoDuration)

\* Array.prototype.join of a list of numbers, as the parts of the string
RECURSIVE join(_, _)
join(numbers, separator) ==
    IF numbers = <<>> THEN <<>>
    ELSE IF Len(numbers) = 1 THEN <<ToString(numbers[1])>>
    ELSE <<ToString(Head(numbers)), separator>> \o join(Tail(numbers), separator)

\* extractColors is called: it calls getVideoDuration, which refuses a URL
\* that isValidVideoUrl rejects and else starts ffprobe, and awaits it
ServiceCall ==
    /\ svcPc = "idle"
    /\ \E timestamps \in SeqsUpTo(TimestampValues, MaxServiceTimestamps),
          urlValid \in BOOLEAN :
          /\ dto' = [videoUrlValid |-> urlValid, timestamps |-> timestamps]
          /\ durationPromise' =
                IF urlValid THEN Pending
                ELSE Rejected(<<"Invalid video URL. Please provide either a direct link to a video file">>)
    /\ svcPc' = "awaitDuration"
    /\ UNCHANGED <<harnessVars, callVars, timingVars, jobs, colorTasks, allColors,
                   extractFrameCalls, colorCalls, processingHistory,
                   servicePromise>>

\* the ffprobe callback of getVideoDuration
ProbeCallback ==
    /\ svcPc = "awaitDuration"
    /\ durationPromise.state = "pending"
    /\ \E err \in BOOLEAN, durationSeconds \in ProbedDurations :
          durationPromise' =
              IF err THEN Rejected(<<"Failed to process video: ", "diagnostic">>)
              ELSE IF durationSeconds = 0
              THEN Rejected(<<"Could not determine video duration from the file">>)
              ELSE Resolved(MathFloor(durationSeconds))
    /\ UNCHANGED <<harnessVars, callVars, timingVars, jobs, svcPc, dto, colorTasks, allColors,
                   extractFrameCalls, colorCalls, processingHistory,
                   servicePromise>>

DurationAwaited_WrapAll ==
    /\ svcPc = "awaitDuration"
    /\ durationPromise.state # "pending"
    /\ IF durationPromise.state = "rejected"
       THEN /\ servicePromise' =
                  Rejected(BadRequestException(
                      <<"Failed to extract colors: ">> \o durationPromise.error))
            /\ svcPc' = "done"
            /\ UNCHANGED <<colorTasks, allColors, extractFrameCalls>>
       ELSE LET videoDuration == durationPromise.value
                invalid == invalidTimestamps(dto.timestamps, videoDuration)
            IN  IF Len(invalid) > 0
                THEN /\ servicePromise' =
                           Rejected(BadRequestException(
                               <<"Failed to extract colors: ", "Timestamps ">>
                                   \o join(invalid, ", ")
                                   \o <<" exceed video duration of ",
                                        ToString(videoDuration), "ms">>))
                     /\ svcPc' = "done"
                     /\ UNCHANGED <<colorTasks, allColors, extractFrameCalls>>
                ELSE /\ colorTasks' =
                           [i \in 1..Len(dto.timestamps) |->
                               [timestamp |-> dto.timestamps[i], stage |-> "frame",
                                frameBuffer |-> <<>>, promise |-> Pending]]
                     /\ extractFrameCalls' = extractFrameCalls \o dto.timestamps
                     /\ allColors' = IF dto.timestamps = <<>>
                                     THEN Resolved(<<>>) ELSE Pending
                     /\ svcPc' = "awaitColors"
                     /\ UNCHANGED servicePromise
    /\ UNCHANGED <<harnessVars, callVars, timingVars, jobs, dto, durationPromise, colorCalls,
                   processingHistory>>

\* extractColors resumes after the await on getVideoDuration: validates the
\* timestamps and starts one processTimestamp per timestamp, each of which
\* calls extractColorFromFrame and so extractFrame
DurationAwaited ==
    /\ svcPc = "awaitDuration"
    /\ durationPromise.state # "pending"
    /\ IF durationPromise.state = "rejected"
       THEN /\ servicePromise' =
                  Rejected(BadRequestException(
                      <<"Failed to extract colors: ">> \o durationPromise.error))
            /\ svcPc' = "done"
            /\ UNCHANGED <<colorTasks, allColors, extractFrameCalls>>
       ELSE LET videoDuration == durationPromise.value
                invalid == invalidTimestamps(dto.timestamps, videoDuration)
            IN  IF Len(invalid) > 0
                THEN /\ servicePromise' =
                           Rejected(BadRequestException(
                               <<"Timestamps ">> \o join(invalid, ", ")
                                   \o <<" exceed video duration of ",
                                        ToString(videoDuration), "ms">>))
                     /\ svcPc' = "done"
                     /\ UNCHANGED <<colorTasks, allColors, extractFrameCalls>>
                ELSE /\ colorTasks' =
                           [i \in 1..Len(dto.timestamps) |->
                               [timestamp |-> dto.timestamps[i], stage |-> "frame",
                                frameBuffer |-> <<>>, promise |-> Pending]]
                     /\ extractFrameCalls' = extractFrameCalls \o dto.timestamps
                     /\ allColors' = IF dto.timestamps = <<>>
                                     THEN Resolved(<<>>) ELSE Pending
                     /\ svcPc' = "awaitColors"
                     /\ UNCHANGED servicePromise
    /\ UNCHANGED <<harnessVars, callVars, timingVars, jobs, dto, durationPromise, colorCalls,
                   processingHistory>>

\* processTimestamp(i): extractFrame settles.  A frame goes on to
\* extractDominantColor; an error is rethrown as 'Failed to process
\* timestamp ...' and rejects Promise.all if it is the first
FrameExtracted(i) ==
    /\ colorTasks[i].stage = "frame"
    /\ \E fails \in BOOLEAN :
          LET timestamp == colorTasks[i].timestamp
              output == SingleOutput(video, timestamp)
              frame ==
                  IF fails
                  THEN Err(<<"FFmpeg extraction failed: ", "diagnostic",
                             ". Make sure FFmpeg is installed and the video URL is accessible.">>)
                  ELSE IF output = <<>>
                  THEN Err(<<"Failed to read extracted frame: ", "ENOENT">>)
                  ELSE Ok(output[1])
              error == <<"Failed to process timestamp ", ToString(timestamp), "ms: ">>
                           \o frame.error
          IN  IF IsErr(frame)
              THEN /\ colorTasks' = [colorTasks EXCEPT ![i].stage = "done",
                                                       ![i].promise = Rejected(error)]
                   /\ allColors' = Settle(allColors, Rejected(error))
                   /\ UNCHANGED colorCalls
              ELSE /\ colorTasks' = [colorTasks EXCEPT ![i].stage = "color",
                                                       ![i].frameBuffer = frame.value]
                   /\ colorCalls' = Append(colorCalls, timestamp)
                   /\ UNCHANGED allColors
    /\ UNCHANGED <<harnessVars, callVars, timingVars, jobs, svcPc, dto, durationPromise,
                   extractFrameCalls, processingHistory, servicePromise>>

\* processTimestamp(i): extractDominantColor settles.  Promise.all resolves
\* with the results in list order once every task has returned
ColorExtracted(i) ==
    /\ colorTasks[i].stage = "color"
    /\ LET timestamp == colorTasks[i].timestamp
           color == extractDominantColor(colorTasks[i].frameBuffer)
           error == <<"Failed to process timestamp ", ToString(timestamp), "ms: ">>
                        \o color.error
           settled == IF IsErr(color) THEN Rejected(error)
                      ELSE Resolved([timestamp |-> timestamp, color |-> color.value])
           after == [colorTasks EXCEPT ![i].stage = "done", ![i].promise = settled]
       IN  /\ colorTasks' = after
           /\ allColors' =
                 IF IsErr(color) THEN Settle(allColors, Rejected(error))
                 ELSE IF \A j \in 1..Len(after) : after[j].promise.state = "resolved"
                 THEN Settle(allColors,
                             Resolved([j \in 1..Len(after) |-> after[j].promise.value]))
                 ELSE allColors
    /\ UNCHANGED <<harnessVars, callVars, timingVars, jobs, svcPc, dto, durationPromise,
                   extractFrameCalls, colorCalls, processingHistory,
                   servicePromise>>

ColorsAwaited_SaveAlways ==
    /\ svcPc = "awaitColors"
    /\ allColors.state # "pending"
    /\ processingHistory' =
          Append(processingHistory, [timestamps |-> dto.timestamps])
    /\ IF allColors.state = "resolved"
       THEN servicePromise' = Resolved(allColors.value)
       ELSE servicePromise' =
                Rejected(BadRequestException(
                    <<"Failed to extract colors: ">> \o allColors.error))
    /\ svcPc' = "done"
    /\ UNCHANGED <<harnessVars, callVars, timingVars, jobs, dto, durationPromise, colorTasks,
                   allColors, extractFrameCalls, colorCalls>>

\* extractColors resumes after the await on Promise.all: saves the
\* processing record and returns, or rethrows as a BadRequestException
ColorsAwaited ==
    /\ svcPc = "awaitColors"
    /\ allColors.state # "pending"
    /\ IF allColors.state = "resolved"
       THEN /\ processingHistory' =
                  Append(processingHistory, [timestamps |-> dto.timestamps])
            /\ servicePromise' = Resolved(allColors.value)
       ELSE /\ servicePromise' =
                  Rejected(BadRequestException(
                      <<"Failed to extract colors: ">> \o allColors.error))
            /\ UNCHANGED processingHistory
    /\ svcPc' = "done"
    /\ UNCHANGED <<harnessVars, callVars, timingVars, jobs, dto, durationPromise, colorTasks,
                   allColors, extractFrameCalls, colorCalls>>

NextService ==
    \/ ServiceCall
    \/ ProbeCallback
    \/ DurationAwaited
    \/ \E i \in 1..Len(colorTasks) : FrameExtracted(i)
    \/ \E i \in 1..Len(colorTasks) : ColorExtracted(i)
    \/ ColorsAwaited

SpecService == Init /\ [][NextService]_vars

----------------------------------------------------------------------------
(* Concurrent FfmpegUtil.extractFrame calls *)

\* extractColors maps processTimestamp over the timestamps: one extractFrame
\* call per timestamp, all in flight together, each with the output path it
\* made from Date.now() and Math.random()
StartJobs ==
    /\ jobs = <<>>
    /\ \E timestamps \in SeqsUpTo(TimestampValues, MaxJobs) \ {<<>>} :
       \E paths \in [1..Len(timestamps) -> OutputPaths],
          fails \in [1..Len(timestamps) -> BOOLEAN] :
          jobs' = [i \in 1..Len(timestamps) |->
                      [timestampMs |-> timestamps[i], outputPath |-> paths[i],
                       fails |-> fails[i], written |-> FALSE,
                       promise |-> Pending]]
    /\ UNCHANGED <<harnessVars, callVars, serviceVars, timingVars>>

\* the decoder of call i writes its output file
JobWriteFile(i) ==
    /\ jobs[i].promise.state = "pending"
    /\ ~jobs[i].written
    /\ SingleOutput(video, jobs[i].timestampMs) # <<>>
    /\ tempFiles' = WriteFile(tempFiles, jobs[i].outputPath,
                              SingleOutput(video, jobs[i].timestampMs)[1])
    /\ jobs' = [jobs EXCEPT ![i].written = TRUE]
    /\ UNCHANGED <<harnessVars, serviceVars, timingVars, pc, videoUrlValid,
                   video, timestampsMs, ffmpegRuns, decoder, chunks,
                   parseCalls, parsed, framesPromise, tasks, callPromise>>

\* .on('end') of call i: readFileSync, unlink, resolve; any throw rejects
JobEnd(i) ==
    /\ jobs[i].promise.state = "pending"
    /\ ~jobs[i].fails
    /\ jobs[i].written \/ SingleOutput(video, jobs[i].timestampMs) = <<>>
    /\ \E fault \in {"none", "readFileSync", "unlink"} :
          IF jobs[i].outputPath \notin DOMAIN tempFiles
          THEN /\ fault = "none"
               /\ jobs' = [jobs EXCEPT ![i].promise =
                     Rejected(<<"Failed to read extracted frame: ", "ENOENT">>)]
               /\ UNCHANGED tempFiles
          ELSE IF fault # "none"
          THEN /\ jobs' = [jobs EXCEPT ![i].promise =
                     Rejected(<<"Failed to read extracted frame: ", fault>>)]
               /\ UNCHANGED tempFiles
          ELSE /\ jobs' = [jobs EXCEPT ![i].promise =
                     Resolved(tempFiles[jobs[i].outputPath])]
               /\ tempFiles' = RemoveFile(tempFiles, jobs[i].outputPath)
    /\ UNCHANGED <<harnessVars, serviceVars, timingVars, pc, videoUrlValid,
                   video, timestampsMs, ffmpegRuns, decoder, chunks,
                   parseCalls, parsed, framesPromise, tasks, callPromise>>

\* .on('error') of call i: remove the output file if it exists, reject
JobError(i) ==
    /\ jobs[i].promise.state = "pending"
    /\ jobs[i].fails
    /\ tempFiles' = RemoveFile(tempFiles, jobs[i].outputPath)
    /\ jobs' = [jobs EXCEPT ![i].promise =
          Rejected(<<"FFmpeg extraction failed: ", "diagnostic",
                     ". Make sure FFmpeg is installed and the video URL is accessible.">>)]
    /\ UNCHANGED <<harnessVars, serviceVars, timingVars, pc, videoUrlValid,
                   video, timestampsMs, ffmpegRuns, decoder, chunks,
                   parseCalls, parsed, framesPromise, tasks, callPromise>>

NextJobs ==
    \/ StartJobs
    \/ \E i \in 1..Len(jobs) : JobWriteFile(i)
    \/ \E i \in 1..Len(jobs) : JobEnd(i)
    \/ \E i \in 1..Len(jobs) : JobError(i)

SpecJobs == InitFair /\ [][NextJobs]_vars

----------------------------------------------------------------------------
(* Pure functions applied to inputs drawn from bounded sets *)

NoCall ==
    /\ pc = "idle"
    /\ videoUrlValid = TRUE
    /\ video = {}
    /\ timestampsMs = <<>>
    /\ ffmpegRuns = <<>>
    /\ decoder = NoDecoder
    /\ chunks = <<>>
    /\ parseCalls = 0
    /\ parsed = <<>>
    /\ tempFiles = NoFiles
    /\ framesPromise = Pending
    /\ tasks = <<>>
    /\ callPromise = Pending
    /\ NoService
    /\ NoTiming
    /\ jobs = <<>>

\* channel values 0..255, and a few values with a fraction, in halves
ChannelSamples ==
    {2 * v : v \in {w \in 0..255 : w <= MaxLowChannel \/ w % ChannelStride = 0 \/ w \in {128, 255}}}
    \cup {1, 31, 509}

InitHex ==
    /\ fn = "none"
    /\ arg \in ChannelSamples \X ChannelSamples \X ChannelSamples
    /\ ret = <<>>
    /\ NoCall

ApplyRgbToHex ==
    /\ fn = "none"
    /\ fn' = "rgbToHex"
    /\ ret' = rgbToHex(arg[1], arg[2], arg[3])
    /\ UNCHANGED <<serviceVars, timingVars, jobs, arg, pc, videoUrlValid, video, timestampsMs, ffmpegRuns,
                   decoder, chunks, parseCalls, parsed, tempFiles,
                   framesPromise, tasks, callPromise>>

NextHex == ApplyRgbToHex

SpecHex == InitHex /\ [][NextHex]_vars

\* two candidate swatches for the k-th category
SwatchSamples(k) == {Swatch(16 * k, k, 255), Swatch(k, 255 - k, 16 * k + 9)}

\* the k-th category absent or holding one of its candidates
SwatchOptions(k) == {Absent} \cup SwatchSamples(k)

PaletteSamples ==
    {[Vibrant |-> v, Muted |-> m, DarkVibrant |-> dv, DarkMuted |-> dm,
      LightVibrant |-> lv, LightMuted |-> lm] :
        v \in SwatchOptions(1), m \in SwatchOptions(2), dv \in SwatchOptions(3),
        dm \in SwatchOptions(4), lv \in SwatchOptions(5), lm \in SwatchOptions(6)}

InitPalette ==
    /\ fn = "none"
    /\ arg \in {Ok(p) : p \in PaletteSamples} \cup {Err(<<"vibrant: cannot decode image">>)}
    /\ ret = <<>>
    /\ NoCall

ApplyExtractDominantColor ==
    /\ fn = "none"
    /\ fn' = "extractDominantColor"
    /\ ret' = DominantColorOf(arg)
    /\ UNCHANGED <<serviceVars, timingVars, jobs, arg, pc, videoUrlValid, video, timestampsMs, ffmpegRuns,
                   decoder, chunks, parseCalls, parsed, tempFiles,
                   framesPromise, tasks, callPromise>>

NextPalette == ApplyExtractDominantColor

SpecPalette == InitPalette /\ [][NextPalette]_vars

\* offsets (0-based) at which the SOI marker occurs in a buffer
SoiOffsets(buffer) ==
    {i \in 0..(Len(buffer) - 2) : buffer[i + 1] = 255 /\ buffer[i + 2] = 216}

\* buffers that start with the SOI marker and hold no other occurrence of it
JpegSamples ==
    {SOI \o body : body \in
        {b \in SeqsUpTo({0, 216, 255}, MaxJpegBody) : SoiOffsets(SOI \o b) = {0}}}

InitParse ==
    /\ fn = "none"
    /\ arg \in SeqsUpTo(JpegSamples, MaxJpegs)
    /\ ret = <<>>
    /\ NoCall

\* parseJpegFrames(Buffer.concat(arg))
ApplyParseJpegFrames ==
    /\ fn = "none"
    /\ fn' = "parseJpegFrames"
    /\ ret' = parseJpegFrames(Flatten(arg))
    /\ UNCHANGED <<serviceVars, timingVars, jobs, arg, pc, videoUrlValid, video, timestampsMs, ffmpegRuns,
                   decoder, chunks, parseCalls, parsed, tempFiles,
                   framesPromise, tasks, callPromise>>

NextParse == ApplyParseJpegFrames

SpecParse == InitParse /\ [][NextParse]_vars

\* any one buffer of marker and filler bytes, as the only chunk
InitParseRaw ==
    /\ fn = "none"
    /\ arg \in {<<buffer>> : buffer \in SeqsUpTo({0, 216, 255}, MaxBufferLen)}
    /\ ret = <<>>
    /\ NoCall

SpecParseRaw == InitParseRaw /\ [][NextParse]_vars

\* timestamps whose windows touch, overlap and reach below zero
SelectTimestampValues == {5, 25, 40}

\* a timestamp list and the presentation time of one frame
InitSelect ==
    /\ fn = "none"
    /\ arg \in {<<timestamps, t>> :
                    timestamps \in SeqsUpTo(SelectTimestampValues, MaxTimestamps),
                    t \in 0..MaxSelectTime}
    /\ ret = <<>>
    /\ NoCall

\* the select expression is built from arg[1] and FFmpeg evaluates it on a
\* frame at arg[2]
ApplySelectExpression ==
    /\ fn = "none"
    /\ fn' = "selectExpression"
    /\ LET expr == selectExpression(arg[1])
       IN  ret' = [terms |-> Len(expr), value |-> EvalSelect(expr, arg[2])]
    /\ UNCHANGED <<serviceVars, timingVars, jobs, arg, pc, videoUrlValid, video, timestampsMs, ffmpegRuns,
                   decoder, chunks, parseCalls, parsed, tempFiles,
                   framesPromise, tasks, callPromise>>

NextSelect == ApplySelectExpression

SpecSelect == InitSelect /\ [][NextSelect]_vars

----------------------------------------------------------------------------
(* Claims *)

Abs(x) == IF x < 0 THEN -x ELSE x

\* C1: a batch call with a non-empty timestamp list either fails or returns
\* exactly as many entries as the list has; never a shorter list.
C1_LengthOrFail ==
    (callPromise.state = "resolved" /\ Len(timestampsMs) >= 1)
        => Len(callPromise.value) = Len(timestampsMs)

\* C2: in a successful batch call the i-th result carries the i-th requested
\* timestamp, for every position i of the result, whatever the order of the
\* request.
C2_OrderPreserved ==
    callPromise.state = "resolved"
        => \A i \in 1..Len(callPromise.value) :
              /\ i <= Len(timestampsMs)
              /\ callPromise.value[i].timestamp = timestampsMs[i]

\* C3: in a successful batch call with two or more timestamps, the color
\* reported for a timestamp is computed from a frame of the source that
\* lies in that timestamp's own window of +-10 ms.
C3_ColorFromOwnWindow ==
    (callPromise.state = "resolved" /\ Len(timestampsMs) >= 2)
        => \A i \in 1..Len(tasks) :
              \E t \in video :
                 /\ tasks[i].frameBuffer = Frame(t)
                 /\ Abs(t - tasks[i].timestamp) <= ToleranceMs

\* C4: when a decoder that ran to its end yields fewer frames (but some)
\* than timestamps were requested, the batch call fails with an error that
\* names every timestamp left without a frame.
C4_UndercountFails ==
    (/\ pc = "done"
     /\ decoder.kind = "batch" /\ ~decoder.fails
     /\ parseCalls = 1
     /\ 0 < Len(parsed) /\ Len(parsed) < Len(timestampsMs))
        => /\ callPromise.state = "rejected"
           /\ \A i \in (Len(parsed) + 1)..Len(timestampsMs) :
                 ToString(timestampsMs[i]) \in Range(callPromise.error)

\* C5: parseJpegFrames applied to the concatenation of K >= 1 buffers that
\* each start with the SOI marker and hold no other occurrence of it returns
\* exactly those K buffers, in order.
C5_DemuxRoundTrip ==
    (fn = "parseJpegFrames" /\ Len(arg) >= 1) => ret = arg

\* C6: a successful batch call on a list that repeats a timestamp returns
\* one result per list position, and positions with equal timestamps carry
\* the same color.
C6_DuplicatesKept ==
    (/\ callPromise.state = "resolved"
     /\ \E i, j \in 1..Len(timestampsMs) : i # j /\ timestampsMs[i] = timestampsMs[j])
        => /\ Len(callPromise.value) = Len(timestampsMs)
           /\ \A i, j \in 1..Len(timestampsMs) :
                 timestampsMs[i] = timestampsMs[j]
                    => callPromise.value[i].color = callPromise.value[j].color

\* what C7 says of a call: started one single-frame decoder and nothing of
\* the batch path, and a success is one result for the one timestamp
SinglePathOnly ==
    /\ ffmpegRuns = <<"single">>
    /\ decoder.kind = "single"
    /\ parseCalls = 0 /\ chunks = <<>> /\ parsed = <<>>
    /\ callPromise.state = "resolved"
          => /\ Len(callPromise.value) = 1
             /\ callPromise.value[1].timestamp = timestampsMs[1]

\* C7 as stated: every finished call with a timestamp list of size 1 ran
\* exactly one single-frame decoder invocation and bypassed the batch path.
C7_SinglePathAlways ==
    (pc = "done" /\ Len(timestampsMs) = 1) => SinglePathOnly

\* C7, amended: a call with a timestamp list of size 1 and a video URL that
\* isValidVideoUrl accepts runs exactly one single-frame decoder invocation,
\* bypasses select expression, stream parsing and frame mapping, and on
\* success returns one result, for that timestamp.
C7_SinglePath ==
    (pc # "idle" /\ Len(timestampsMs) = 1 /\ videoUrlValid) => SinglePathOnly

C7_Witness ==
    /\ Len(timestampsMs) = 1 /\ videoUrlValid
    /\ callPromise.state = "resolved"
    /\ Len(callPromise.value) = 1

\* C8 as stated: every finished call with N > 1 timestamps started exactly
\* one decoder process.
C8_OneDecoderAlways ==
    (pc = "done" /\ Len(timestampsMs) > 1) => Len(ffmpegRuns) = 1

\* C8, amended: a call with N > 1 timestamps and a video URL that
\* isValidVideoUrl accepts starts exactly one decoder process, the batch
\* one, whatever N is and whether the call succeeds or fails.
C8_OneDecoder ==
    (pc # "idle" /\ Len(timestampsMs) > 1 /\ videoUrlValid)
        => ffmpegRuns = <<"batch">>

C8_Witness ==
    /\ Len(timestampsMs) >= 3 /\ videoUrlValid
    /\ pc = "done"
    /\ callPromise.state = "rejected"
    /\ ffmpegRuns = <<"batch">>

\* C9: extractDominantColor returns the color of the first present swatch
\* in the order Vibrant, Muted, DarkVibrant, DarkMuted, LightVibrant,
\* LightMuted: category k is the one chosen exactly when it is present and
\* every category before it is absent.
C9_SwatchPriority ==
    (fn = "extractDominantColor" /\ ~IsErr(arg))
        => \A k \in 1..6 :
              (/\ arg.value[Categories[k]] # Absent
               /\ \A j \in 1..(k - 1) : arg.value[Categories[j]] = Absent)
                 => LET rgb == arg.value[Categories[k]].rgb
                    IN  ret = Ok(rgbToHex(rgb[1], rgb[2], rgb[3]))

C9_Witness ==
    /\ fn = "extractDominantColor" /\ ~IsErr(arg)
    /\ {c \in Range(Categories) : arg.value[c] # Absent} = {"Muted", "LightVibrant"}
    /\ LET rgb == arg.value.Muted.rgb
       IN  ret = Ok(rgbToHex(rgb[1], rgb[2], rgb[3]))

\* C10: for integer channels r, g, b in 0..255, rgbToHex returns seven
\* characters: '#', then the two uppercase hexadecimal digits of r, of g
\* and of b.
C10_HexExact ==
    (/\ fn = "rgbToHex"
     /\ \A k \in 1..3 : arg[k] % 2 = 0 /\ arg[k] \div 2 \in 0..255)
        => LET r == arg[1] \div 2
               g == arg[2] \div 2
               b == arg[3] \div 2
           IN  ret = <<"#", UpperHexDigits[(r \div 16) + 1], UpperHexDigits[(r % 16) + 1],
                            UpperHexDigits[(g \div 16) + 1], UpperHexDigits[(g % 16) + 1],
                            UpperHexDigits[(b \div 16) + 1], UpperHexDigits[(b % 16) + 1]>>

C10_Witness ==
    /\ fn = "rgbToHex"
    /\ arg = <<510, 0, 256>>
    /\ ret = <<"#", "F", "F", "0", "0", "8", "0">>


\* C11: for a palette with none of the six categories present,
\* extractDominantColor throws an error carrying 'No color swatch found in
\* palette' and returns no color.
C11_NoSwatchFails ==
    (fn = "extractDominantColor" /\ ~IsErr(arg) /\ arg.value = NoPalette)
        => /\ IsErr(ret)
           /\ "No color swatch found in palette" \in Range(ret.error)

C11_Witness ==
    /\ fn = "extractDominantColor"
    /\ arg = Ok(NoPalette)
    /\ ret = Err(<<"Failed to extract color: ", "No color swatch found in palette">>)

\* C12: as soon as the palette extraction of one frame of a batch has
\* failed, the call is rejected, and it stays so: no results reach the
\* caller, however many other tasks succeed and in whatever order.
C12_FailFast ==
    (\E i \in 1..Len(tasks) : tasks[i].promise.state = "rejected")
        => callPromise.state = "rejected"

C12_Witness ==
    /\ pc = "done"
    /\ callPromise.state = "rejected"
    /\ \E i, j \in 1..Len(tasks) :
          /\ i < j
          /\ tasks[i].promise.state = "resolved"
          /\ tasks[j].promise.state = "rejected"


NoFramesMessage == <<"FFmpeg returned no frames">>

\* C13: once the decoder has reported an error, a settled call is a
\* rejected one, and its error carries the decoder's diagnostic text,
\* whatever the order of the 'error' and 'end' events.
C13_DecoderErrorFails ==
    (decoder.errorFired /\ callPromise.state # "pending")
        => /\ callPromise.state = "rejected"
           /\ "diagnostic" \in Range(callPromise.error)

\* C14 as stated: a batch call whose decoder stream ended with zero bytes
\* fails with the no-frames error.
C14_EmptyStreamNoFramesAlways ==
    (/\ decoder.kind = "batch" /\ decoder.endFired
     /\ Flatten(chunks) = <<>>
     /\ callPromise.state # "pending")
        => callPromise = Rejected(NoFramesMessage)

\* C14, amended: a batch call (N > 1) whose decoder stream ended with zero
\* bytes fails and returns no results; the error is the no-frames error,
\* unless the decoder's 'error' event was handled before the stream's 'end',
\* and then it is the decode error.
C14_EmptyStreamFails ==
    (decoder.kind = "batch" /\ decoder.endFired /\ Flatten(chunks) = <<>>)
        => /\ framesPromise.state = "rejected"
           /\ \/ framesPromise.error = NoFramesMessage
              \/ /\ decoder.errorFired
                 /\ framesPromise.error[1] = "FFmpeg batch extraction failed: "
           /\ callPromise.state # "resolved"
           /\ pc = "done" => callPromise = Rejected(framesPromise.error)

C14_Witness ==
    /\ Len(timestampsMs) > 1
    /\ decoder.kind = "batch" /\ ~decoder.fails /\ decoder.endFired
    /\ Flatten(chunks) = <<>>
    /\ pc = "done"
    /\ callPromise = Rejected(NoFramesMessage)

\* C15: for a non-empty buffer without any SOI marker, parseJpegFrames
\* returns no frame (so that the batch call fails with the no-frames error).
C15_NoMarkerNoFrames ==
    (/\ fn = "parseJpegFrames"
     /\ Flatten(arg) # <<>>
     /\ SoiOffsets(Flatten(arg)) = {})
        => ret = <<>>

\* C16 as stated: a call with an empty timestamp list fails with 'No
\* timestamps provided' and starts no decoder process.
C16_NoTimestampsAlways ==
    (pc # "idle" /\ timestampsMs = <<>>)
        => /\ framesPromise = Rejected(<<"No timestamps provided">>)
           /\ ffmpegRuns = <<>>

\* C16, amended: a call with a video URL that isValidVideoUrl accepts and
\* an empty timestamp list fails with 'No timestamps provided', and no
\* decoder process is ever started for it.
C16_NoTimestamps ==
    (pc # "idle" /\ timestampsMs = <<>> /\ videoUrlValid)
        => /\ framesPromise = Rejected(<<"No timestamps provided">>)
           /\ ffmpegRuns = <<>> /\ decoder = NoDecoder
           /\ pc = "done" => callPromise = Rejected(<<"No timestamps provided">>)

C16_Witness ==
    /\ pc = "done" /\ timestampsMs = <<>> /\ videoUrlValid
    /\ callPromise = Rejected(<<"No timestamps provided">>)
    /\ ffmpegRuns = <<>>


\* C20: once a single-frame extraction has settled, resolved or rejected,
\* the temporary output file of that call no longer exists.
C20_TempFileRemoved ==
    (decoder.kind = "single" /\ framesPromise.state # "pending")
        => decoder.outputPath \notin DOMAIN tempFiles


\* the frame map a call on this source gets from a decoder that does not
\* fail: the one frame of extractFrame, or the parsed output by position
FrameMapOf(frameTimes, timestamps) ==
    IF IsSingleTimestamp(timestamps)
    THEN << <<timestamps[1], SingleOutput(frameTimes, timestamps[1])[1]>> >>
    ELSE FrameMapLoop(timestamps,
                      parseJpegFrames(Flatten(BatchOutput(frameTimes, timestamps))),
                      0, <<>>)

\* the (timestamp, color) pairs of a result list
Colors(results) ==
    [i \in 1..Len(results) |->
        [timestamp |-> results[i].timestamp, color |-> results[i].color]]

\* the results that follow from the source and the timestamp list alone
ResultsOf(frameTimes, timestamps) ==
    LET frameMap == FrameMapOf(frameTimes, timestamps)
    IN  SortByTimestamp([i \in 1..Len(frameMap) |->
            [timestamp |-> frameMap[i][1],
             color |-> extractDominantColor(frameMap[i][2]).value]])

\* C18: with a decoder that does not fail, what a call returns is a function
\* of the source and the timestamp list alone: every call that returns,
\* returns the same (timestamp, color) sequence, whatever the order in which
\* the concurrent color tasks completed.
C18_Deterministic ==
    (pc = "done" /\ callPromise.state = "resolved" /\ ~decoder.fails)
        => Colors(callPromise.value) = ResultsOf(video, timestampsMs)

C18_Witness ==
    /\ pc = "done" /\ callPromise.state = "resolved" /\ ~decoder.fails
    /\ Len(callPromise.value) >= 2
    /\ timestampsMs[1] > timestampsMs[2]
    /\ Colors(callPromise.value) = ResultsOf(video, timestampsMs)

\* C19: on a list of pairwise distinct timestamps, the batch path returns for
\* every timestamp the color that the per-timestamp path returns for it,
\* and nothing else.
C19_BatchEqualsPerTimestamp ==
    (/\ pc = "done" /\ callPromise.state = "resolved" /\ ~decoder.fails
     /\ \A i, j \in 1..Len(timestampsMs) :
           timestampsMs[i] = timestampsMs[j] => i = j)
        => /\ Len(callPromise.value) = Len(timestampsMs)
           /\ \A i \in 1..Len(callPromise.value) :
                 LET r == callPromise.value[i]
                 IN  /\ r.timestamp \in Range(timestampsMs)
                     /\ Ok(r.color) = extractColorFromFrame(video, r.timestamp)


\* C17: when a requested timestamp exceeds the probed duration, extractColors
\* fails with a BadRequestException whose message names every such
\* timestamp, and no frame extraction, no color extraction and no
\* saveProcessingRecord happens for the request.
C17_BeyondDurationRefused ==
    (/\ svcPc \in {"awaitColors", "done"}
     /\ durationPromise.state = "resolved"
     /\ \E i \in 1..Len(dto.timestamps) : dto.timestamps[i] > durationPromise.value)
        => /\ svcPc = "done"
           /\ servicePromise.state = "rejected"
           /\ servicePromise.error.name = "BadRequestException"
           /\ \A i \in 1..Len(dto.timestamps) :
                 dto.timestamps[i] > durationPromise.value
                     => ToString(dto.timestamps[i]) \in Range(servicePromise.error.message)
           /\ extractFrameCalls = <<>> /\ colorTasks = <<>>
           /\ colorCalls = <<>>
           /\ processingHistory = <<>>

C17_Witness ==
    /\ svcPc = "done"
    /\ durationPromise.state = "resolved"
    /\ \E i, j \in 1..Len(dto.timestamps) :
          /\ dto.timestamps[i] > durationPromise.value
          /\ dto.timestamps[j] > durationPromise.value
          /\ dto.timestamps[i] # dto.timestamps[j]
    /\ servicePromise.state = "rejected"
    /\ extractFrameCalls = <<>> /\ processingHistory = <<>>


\* C21: the frame map of a batch extraction is positional: for every i below
\* min(produced, requested) the i-th parsed frame is the frame of the i-th
\* timestamp, and the map holds nothing else.
C21_Positional ==
    (decoder.kind = "batch" /\ framesPromise.state = "resolved")
        => LET frameMap == framesPromise.value
               n == Min({Len(parsed), Len(timestampsMs)})
           IN  /\ \A i \in 1..n :
                     \E k \in 1..Len(frameMap) :
                         frameMap[k] = <<timestampsMs[i], parsed[i]>>
               /\ \A k \in 1..Len(frameMap) :
                     \E i \in 1..n : frameMap[k] = <<timestampsMs[i], parsed[i]>>

RaisedErrors ==
    {InvalidUrlError.error, <<"No timestamps provided">>, <<"diagnostic">>,
     NoFramesMessage, <<"ENOENT">>, <<"readFileSync">>, <<"unlink">>,
     <<"vibrant: cannot decode image">>, <<"No color swatch found in palette">>}

\* C23: a finished batch call has returned either the complete result set
\* or exactly the error a component raised, not wrapped and not replaced.
C23_ErrorsUnchanged ==
    pc = "done"
        => \/ /\ callPromise.state = "resolved"
              /\ Len(callPromise.value) = Len(timestampsMs)
           \/ /\ callPromise.state = "rejected"
              /\ callPromise.error \in RaisedErrors


\* C24: every failure of extractColors is a BadRequestException: the one
\* thrown for timestamps beyond the duration unchanged, any other error
\* replaced by one whose message is 'Failed to extract colors: ' followed by
\* the original message; and a finished request has settled.
C24_AlwaysBadRequest ==
    /\ svcPc = "done" => servicePromise.state # "pending"
    /\ servicePromise.state = "rejected"
          => LET message == servicePromise.error.message
             IN  /\ servicePromise.error.name = "BadRequestException"
                 /\ IF durationPromise.state = "rejected"
                    THEN message = <<"Failed to extract colors: ">> \o durationPromise.error
                    ELSE IF \E i \in 1..Len(dto.timestamps) :
                                dto.timestamps[i] > durationPromise.value
                    THEN message[1] = "Timestamps " /\ message[Len(message)] = "ms"
                    ELSE /\ allColors.state = "rejected"
                         /\ message = <<"Failed to extract colors: ">> \o allColors.error

C24_Witness ==
    /\ svcPc = "done"
    /\ servicePromise.state = "rejected"
    /\ servicePromise.error.name = "BadRequestException"
    /\ servicePromise.error.message[1] = "Failed to extract colors: "
    /\ servicePromise.error.message[2] = "Failed to process timestamp "
    /\ "No color swatch found in palette" \in Range(servicePromise.error.message)


\* C27: the frames parseJpegFrames returns are non-empty slices of the
\* buffer, in ascending offset order and not overlapping, each starting at
\* an occurrence of the SOI marker, the last one ending where the buffer ends.
C27_FramesAreSlices ==
    fn = "parseJpegFrames"
        => LET buffer == Flatten(arg)
               n == Len(ret)
           IN  /\ \A k \in 1..n : Len(ret[k]) > 0
               /\ \E offset \in [1..n -> 0..Len(buffer)] :
                     /\ \A k \in 1..n :
                           /\ offset[k] \in SoiOffsets(buffer)
                           /\ subarray(buffer, offset[k], offset[k] + Len(ret[k])) = ret[k]
                     /\ \A k \in 1..(n - 1) : offset[k] + Len(ret[k]) <= offset[k + 1]
                     /\ n > 0 => offset[n] + Len(ret[n]) = Len(buffer)


\* C28: extractColors saves one processing record per request, and only
\* once the colors of all requested timestamps were extracted; a request
\* that fails, at whatever stage, leaves the processing history as it was.
C28_SaveOnceOnSuccess ==
    /\ Len(processingHistory) <= 1
    /\ processingHistory # <<>>
          => /\ servicePromise.state = "resolved"
             /\ processingHistory[1].timestamps = dto.timestamps
             /\ Len(colorTasks) = Len(dto.timestamps)
             /\ \A i \in 1..Len(colorTasks) : colorTasks[i].promise.state = "resolved"
    /\ servicePromise.state = "resolved" => Len(processingHistory) = 1
    /\ servicePromise.state = "rejected" => processingHistory = <<>>

C28_Witness ==
    /\ svcPc = "done"
    /\ servicePromise.state = "resolved"
    /\ Len(dto.timestamps) >= 2
    /\ processingHistory = <<[timestamps |-> dto.timestamps]>>


\* C26: a finished call whose decoder reported an error, or one of whose
\* palette extractions failed, has failed, and it started one decoder
\* process and parsed its output at most once: nothing was retried.
C26_NoRetry ==
    (/\ pc = "done"
     /\ \/ decoder.errorFired
        \/ \E i \in 1..Len(tasks) : tasks[i].promise.state = "rejected")
        => /\ callPromise.state = "rejected"
           /\ Len(ffmpegRuns) = 1
           /\ parseCalls <= 1


\* the task of extractColorsFromFrames that a result entry came from
TaskOf(entry) ==
    CHOOSE j \in 1..Len(tasks) : tasks[j].timestamp = entry.timestamp

C30_NoInterference ==
    \A i \in 1..Len(jobs) :
        /\ jobs[i].promise.state = "resolved"
              => SingleOutput(video, jobs[i].timestampMs) = <<jobs[i].promise.value>>
        /\ (jobs[i].promise.state = "rejected" /\ jobs[i].written /\ ~jobs[i].fails)
              => "ENOENT" \notin Range(jobs[i].promise.error)

\* C30: two extractFrame calls in flight together never have the same
\* temporary output file, so neither reads the other's frame nor loses its
\* file to the other before reading it.
C30_OwnTempFile ==
    /\ \A i, j \in 1..Len(jobs) :
          (/\ i # j
           /\ jobs[i].promise.state = "pending"
           /\ jobs[j].promise.state = "pending")
              => jobs[i].outputPath # jobs[j].outputPath
    /\ C30_NoInterference

====
